---- MODULE Spec2Model ----
(***************************************************************************)
(* Batch ISBN resolution worker (nld-isbn).                                *)
(*                                                                         *)
(* Two handlers are modelled: the one of src/unnamed/part_000 (retry,      *)
(* timeout, author normalisation) and the one of src/worker/src/index.js   *)
(* (single fetch inside one try/catch).  The variable impl says which one  *)
(* a behaviour runs.                                                       *)
(*                                                                         *)
(* Text.  A JavaScript string is modelled as a sequence of characters; a   *)
(* character is a TLA+ string: an ASCII character stands for itself        *)
(* ("a", ":", " "), a Hangul syllable is written as its romanisation in    *)
(* capitals ("GIM" for U+AE40), and the few other non-ASCII characters     *)
(* have names ("NBSP", "MIDDOT", "BULLET", "KATAMID").  Lengths therefore  *)
(* count UTF-16 code units as the source does.                             *)
(***************************************************************************)
EXTENDS Integers, Sequences, FiniteSets, TLC

\* ------------------------------------------------------------------------
\* Text helpers
\* ------------------------------------------------------------------------

RECURSIVE A(_)
\* An ASCII string literal as Text.
A(s) == IF s = "" THEN <<>> ELSE <<Head(s)>> \o A(Tail(s))

Min(a, b) == IF a <= b THEN a ELSE b
Max(a, b) == IF a >= b THEN a ELSE b

Digits == {"0", "1", "2", "3", "4", "5", "6", "7", "8", "9"}

AsciiLetters ==
  {"a", "b", "c", "d", "e", "f", "g", "h", "i", "j", "k", "l", "m",
   "n", "o", "p", "q", "r", "s", "t", "u", "v", "w", "x", "y", "z",
   "A", "B", "C", "D", "E", "F", "G", "H", "I", "J", "K", "L", "M",
   "N", "O", "P", "Q", "R", "S", "T", "U", "V", "W", "X", "Y", "Z"}

\* \s of a JavaScript regular expression, and what String.prototype.trim strips.
WhiteSpace == {" ", "TAB", "LF", "NBSP"}

\* Named non-ASCII characters that are not Hangul syllables.
NamedChars == {"TAB", "LF", "NBSP", "MIDDOT", "BULLET", "KATAMID"}

\* [가-힣]: a romanised syllable.
IsHangul(c) == Len(c) >= 2 /\ c \notin NamedChars

\* s.slice(from0, to0) with 0-based, end-exclusive indices, 0 <= from0.
slice(s, from0, to0) ==
  LET e == Min(to0, Len(s))
  IN  IF from0 >= e THEN <<>> ELSE SubSeq(s, from0 + 1, e)

RECURSIVE TrimLeft(_)
TrimLeft(s) ==
  IF s # <<>> /\ Head(s) \in WhiteSpace THEN TrimLeft(Tail(s)) ELSE s

RECURSIVE TrimRight(_)
TrimRight(s) ==
  IF s # <<>> /\ s[Len(s)] \in WhiteSpace
  THEN TrimRight(SubSeq(s, 1, Len(s) - 1)) ELSE s

\* String.prototype.trim
trim(s) == TrimRight(TrimLeft(s))

\* s starts with p at 1-based position i.
StartsAt(s, p, i) ==
  /\ i + Len(p) - 1 <= Len(s)
  /\ \A k \in 1..Len(p) : s[i + k - 1] = p[k]

\* String.prototype.includes
includes(s, p) == \E i \in 1..(Len(s) + 1) : StartsAt(s, p, i)

RECURSIVE FilterChars(_, _)
\* s.replace(/[^...]/g, "") for a character class given as a set.
FilterChars(s, keep) ==
  IF s = <<>> THEN <<>>
  ELSE (IF Head(s) \in keep THEN <<Head(s)>> ELSE <<>>)
         \o FilterChars(Tail(s), keep)

RECURSIVE MapChars(_, _, _)
\* s.replace(/[class]/g, r) for a one-character replacement r.
MapChars(s, class, r) ==
  IF s = <<>> THEN <<>>
  ELSE <<IF Head(s) \in class THEN r ELSE Head(s)>>
         \o MapChars(Tail(s), class, r)

RECURSIVE SplitOn(_, _)
\* s.split(/[seps]/): the pieces between separator characters.
SplitOn(s, seps) ==
  LET hits == {i \in 1..Len(s) : s[i] \in seps}
  IN  IF hits = {} THEN <<s>>
      ELSE LET i == CHOOSE j \in hits : \A k \in hits : j <= k
           IN  <<SubSeq(s, 1, i - 1)>> \o SplitOn(SubSeq(s, i + 1, Len(s)), seps)

RECURSIVE JoinWith(_, _)
\* Array.prototype.join
JoinWith(parts, sep) ==
  IF parts = <<>> THEN <<>>
  ELSE IF Len(parts) = 1 THEN parts[1]
  ELSE parts[1] \o sep \o JoinWith(Tail(parts), sep)

\* Length of the run of white space that starts at position i of s.
RECURSIVE WsRun(_, _)
WsRun(s, i) ==
  IF i <= Len(s) /\ s[i] \in WhiteSpace THEN 1 + WsRun(s, i + 1) ELSE 0

\* ------------------------------------------------------------------------
\* Identifier normaliser and clamp
\* ------------------------------------------------------------------------

\* normalizeIsbn(v): String(v ?? "").trim(), then every non-digit removed.
normalizeIsbn(v) ==
  LET s == trim(v)
  IN  IF s = <<>> THEN <<>> ELSE FilterChars(s, Digits)

\* Number(v) for the concurrency hint of the body: NaN for a hint that is
\* absent or not a number, otherwise the integer.
NotANumber == [nan |-> TRUE, n |-> 0]
Num(n)     == [nan |-> FALSE, n |-> n]

\* A clamp that only supplies the default.
clampIntUnbounded(v, min, max, def) == IF v.nan THEN def ELSE v.n

\* clampInt(v, min, max, def), on Number(v)
clampInt(v, min, max, def) ==
  IF v.nan THEN def ELSE Max(min, Min(max, v.n))

\* ------------------------------------------------------------------------
\* Regular-expression replacement
\* ------------------------------------------------------------------------

RECURSIVE ReplaceFrom(_, _, _, _)
\* s.replace(re, r) for a global re, from position i on: lens[i] is the
\* length of the match of re that starts at i, or -1 when re does not match
\* there.  Matches are taken leftmost first and do not overlap.
ReplaceFrom(s, lens, r, i) ==
  IF i > Len(s) THEN <<>>
  ELSE IF lens[i] >= 1 THEN r \o ReplaceFrom(s, lens, r, i + lens[i])
  ELSE <<s[i]>> \o ReplaceFrom(s, lens, r, i + 1)

ReplaceAll(s, lens, r) == ReplaceFrom(s, lens, r, 1)

\* The first word of the alternation words (in its order) that matches at
\* position i of s, as an index into words; 0 when none does.
FirstAlt(s, words, i) ==
  LET hits == {k \in 1..Len(words) : StartsAt(s, words[k], i)}
  IN  IF hits = {} THEN 0 ELSE CHOOSE k \in hits : \A j \in hits : k <= j

\* /\([^)]*\)/ and its bracket and brace forms: an opening character and the
\* first closing character after it.
GroupLens(s, open, close) ==
  [i \in 1..Len(s) |->
     IF s[i] # open THEN -1
     ELSE LET js == {j \in (i + 1)..Len(s) : s[j] = close}
          IN  IF js = {} THEN -1
              ELSE (CHOOSE j \in js : \A k \in js : j <= k) - i + 1]

\* /\s+(and|AND|And)\s+/
AndLens(s) ==
  [i \in 1..Len(s) |->
     LET w1 == WsRun(s, i)
         k  == FirstAlt(s, <<A("and"), A("AND"), A("And")>>, i + w1)
         w2 == WsRun(s, i + w1 + 3)
     IN  IF w1 >= 1 /\ k # 0 /\ w2 >= 1 THEN w1 + 3 + w2 ELSE -1]

\* /\s*&\s*/
AmpLens(s) ==
  [i \in 1..Len(s) |->
     LET w1 == WsRun(s, i)
     IN  IF i + w1 <= Len(s) /\ s[i + w1] = "&"
         THEN w1 + 1 + WsRun(s, i + w1 + 1) ELSE -1]

\* /\s*(?:w1|w2|...)\s*/ for the alternation words
WordLens(s, words) ==
  [i \in 1..Len(s) |->
     LET w1 == WsRun(s, i)
         k  == FirstAlt(s, words, i + w1)
     IN  IF k = 0 THEN -1
         ELSE w1 + Len(words[k]) + WsRun(s, i + w1 + Len(words[k]))]

\* /(w1|w2|...)\s*:\s*/
ColonLens(s, words) ==
  [i \in 1..Len(s) |->
     LET k == FirstAlt(s, words, i)
     IN  IF k = 0 THEN -1
         ELSE LET n  == Len(words[k])
                  w1 == WsRun(s, i + n)
              IN  IF i + n + w1 <= Len(s) /\ s[i + n + w1] = ":"
                  THEN n + w1 + 1 + WsRun(s, i + n + w1 + 1) ELSE -1]

\* /\s+/
WsLens(s) == [i \in 1..Len(s) |-> IF s[i] \in WhiteSpace THEN WsRun(s, i) ELSE -1]

RECURSIVE MapTrimFilter(_)
\* parts.map(x => x.trim()).filter(Boolean)
MapTrimFilter(parts) ==
  IF parts = <<>> THEN <<>>
  ELSE SelectSeq(<<trim(Head(parts))>>, LAMBDA p : p # <<>>)
         \o MapTrimFilter(Tail(parts))

\* ------------------------------------------------------------------------
\* Author normalisation (part_000)
\* ------------------------------------------------------------------------

roleWords ==
  << <<"JI", "EUM">>, <<"SSEUM">>, <<"JEO">>, <<"JEO", "JA">>,
     <<"JEO", "SUL">>, <<"GEUL">>, <<"GEUL", "SSEUN", "YI">>,
     <<"WON", "JEO">>, <<"WON", "JAK">>, <<"JEO", "JAK">>,
     <<"GEU", "RIM">>, <<"SAP", "HWA">>, <<"SA", "JIN">>, <<"MAN", "HWA">>,
     <<"IL", "REO", "SEU", "TEU">>,
     <<"IL", "REO", "SEU", "TEU", "RE", "YI", "SYEON">>,
     <<"GEU", "RIN", "YI">>,
     <<"OLM", "GIM">>, <<"OLM", "GIN", "YI">>, <<"BEON", "YEOK">>,
     <<"YEOK">>, <<"YEOK", "JA">>, <<"PYEON", "YEOK">>,
     <<"GAM", "SU">>, <<"GAM", "YEOK">>, <<"GAM", "DOK">>,
     <<"PYEON">>, <<"PYEON", "JIP">>, <<"PYEON", "JEO">>,
     <<"YEOKK", "EUM">>, <<"YEOKK", "EUN", "YI">>, <<"PYEON", "CHAN">>,
     <<"HAE", "SEOL">>, <<"GI", "HOEK">>, <<"GU", "SEONG">>,
     <<"GAM", "SU", "JA">>, <<"YEOK", "HAE">> >>

\* The role words isLikelyPersonName rejects anywhere in a name.
leftoverRoleWords ==
  { <<"JI", "EUM">>, <<"GEUL">>, <<"GEU", "RIM">>, <<"OLM", "GIM">>,
    <<"BEON", "YEOK">>, <<"YEOK", "JA">>, <<"GAM", "SU">>,
    <<"PYEON", "JEO">>, <<"YEOKK", "EUM">>, <<"HAE", "SEOL">>,
    <<"GI", "HOEK">> }

isLikelyPersonName(s) ==
  LET t      == trim(s)
      nows   == FilterChars(t, {t[i] : i \in 1..Len(t)} \ WhiteSpace)
      koreanOk ==
        /\ Len(t) >= 1
        /\ \A i \in 1..Len(t) :
              IsHangul(t[i]) \/ t[i] \in WhiteSpace \cup {"MIDDOT", ".", "KATAMID"}
        /\ Len(nows) >= 2
        /\ Len(nows) <= 8
      englishOk ==
        /\ Len(t) >= 2
        /\ t[1] \in AsciiLetters
        /\ t[Len(t)] \in AsciiLetters
        /\ \A i \in 2..(Len(t) - 1) : t[i] \in AsciiLetters \cup {" ", ".", "'", "-"}
  IN  IF s = <<>> THEN FALSE
      ELSE IF Len(t) < 2 \/ Len(t) > 30 THEN FALSE
      ELSE IF \E i \in 1..Len(t) : t[i] \in Digits THEN FALSE
      ELSE IF \E w \in leftoverRoleWords : includes(t, w) THEN FALSE
      ELSE koreanOk \/ englishOk

\* One candidate of normalizeAuthors: the leading label and the trailing
\* "oe" / "deung" (et al.) are removed, then the candidate is trimmed.
cleanPart(p) ==
  LET k  == FirstAlt(p, << <<"JEO", "JA">>, <<"JEO">>, <<"JI", "EUN", "YI">>,
                          <<"GEUL", "SSEUN", "YI">>, <<"JEO", "SUL", "JA">> >>, 1)
      pfx == << <<"JEO", "JA">>, <<"JEO">>, <<"JI", "EUN", "YI">>,
                <<"GEUL", "SSEUN", "YI">>, <<"JEO", "SUL", "JA">> >>
      p1 == IF k = 0 THEN p
            ELSE LET n == Len(pfx[k])
                 IN  SubSeq(p, n + 1 + WsRun(p, n + 1), Len(p))
      p2 == IF p1 # <<>> /\ p1[Len(p1)] \in {"OE", "DEUNG"}
            THEN TrimRight(SubSeq(p1, 1, Len(p1) - 1)) ELSE p1
  IN  trim(p2)

RECURSIVE MapCleanFilter(_)
MapCleanFilter(parts) ==
  IF parts = <<>> THEN <<>>
  ELSE SelectSeq(<<cleanPart(Head(parts))>>, LAMBDA p : p # <<>>)
         \o MapCleanFilter(Tail(parts))

RECURSIVE FilterPeople(_)
FilterPeople(parts) ==
  IF parts = <<>> THEN <<>>
  ELSE (IF isLikelyPersonName(Head(parts)) THEN <<Head(parts)>> ELSE <<>>)
         \o FilterPeople(Tail(parts))

EmptyAuthors == [authorName |-> <<>>, authorShort |-> <<>>, count |-> 0]

\* " oe": the et-al marker appended to the first name.
EtAl == <<" ", "OE">>

\* s.replace(/\([^)]*\)/g, " ") and its bracket and brace forms
replaceGroups(s, open, close) == ReplaceAll(s, GroupLens(s, open, close), <<" ">>)

\* .replace(/\s+(and|AND|And)\s+/g, ",")
replaceAnd(s) == ReplaceAll(s, AndLens(s), <<",">>)

\* .replace(/\s*&\s*/g, ",")
replaceAmp(s) == ReplaceAll(s, AmpLens(s), <<",">>)

\* s.replace(rolePattern, " ")
replaceRoles(s) == ReplaceAll(s, WordLens(s, roleWords), <<" ">>)

\* s.replace(/(jieuni|jeoja|geulsseuni)\s*:\s*/g, "")
replaceColonRoles(s) ==
  ReplaceAll(s, ColonLens(s, << <<"JI", "EUN", "YI">>, <<"JEO", "JA">>,
                               <<"GEUL", "SSEUN", "YI">> >>), <<>>)

\* s.replace(/\s+/g, " ").trim()
collapseSpaces(s) == trim(ReplaceAll(s, WsLens(s), <<" ">>))

\* The steps of normalizeAuthors between the first trim and the split.
authorText(s0) ==
  collapseSpaces(
    replaceColonRoles(
      replaceRoles(
        replaceAmp(
          replaceAnd(
            MapChars(
              MapChars(
                replaceGroups(replaceGroups(replaceGroups(s0, "(", ")"), "[", "]"),
                              "{", "}"),
                {"MIDDOT", "BULLET"}, ","),
              {";", "|", "/"}, ","))))))

\* The result of normalizeAuthors for the names it kept.
authorsOf(people) ==
  IF people = <<>> THEN EmptyAuthors
  ELSE [authorName  |-> JoinWith(people, A(", ")),
        authorShort |-> IF Len(people) >= 2 THEN people[1] \o EtAl ELSE people[1],
        count       |-> Len(people)]

\* String(authorRaw ?? "").replace(/\u00A0/g, " ").trim()
authorTrimmed(authorRaw) == trim(MapChars(authorRaw, {"NBSP"}, " "))

normalizeAuthors(authorRaw) ==
  IF authorTrimmed(authorRaw) = <<>> THEN EmptyAuthors
  ELSE authorsOf(FilterPeople(MapCleanFilter(MapTrimFilter(
         SplitOn(authorText(authorTrimmed(authorRaw)), {","})))))

\* ------------------------------------------------------------------------
\* Author display (index.js)
\* ------------------------------------------------------------------------

Unknown == <<"JEO", "JA", "MI", "SANG">>   \* the "author unknown" label of index.js

formatAuthorDisplay(authorRaw) ==
  LET raw   == trim(authorRaw)
      parts == MapTrimFilter(SplitOn(raw, {";", "|", ","}))
      p0    == IF parts = <<>> THEN raw ELSE parts[1]
      segs  == SplitOn(p0, {":"})
      first == trim(segs[Len(segs)])
  IN  IF raw = <<>> THEN <<>>
      ELSE IF Len(parts) >= 2 THEN first \o EtAl ELSE first

\* ------------------------------------------------------------------------
\* Values, statuses and notes
\* ------------------------------------------------------------------------

\* JavaScript's undefined (a missing property, an absent parameter).
Undefined == <<"undefined">>

\* o.k of an object modelled as a function on its property names.
Prop(o, k) == IF k \in DOMAIN o THEN o[k] ELSE Undefined

\* v ?? d
Nullish(v, d) == IF v = Undefined THEN d ELSE v

\* The booleans of a row base (found), kept apart from TLA+'s own so that a
\* property value can always be compared with Undefined.
JsTrue  == <<"true">>
JsFalse == <<"false">>

\* Truthiness of a text, a boolean or undefined.
Truthy(v) == v # Undefined /\ v # <<>> /\ v # JsFalse

AllDigits(s) == \A i \in 1..Len(s) : s[i] \in Digits

\* extractYear (part_000) / extractYearFromDate8 (index.js): String(v ?? "").trim()
\* and the three accepted date shapes.
extractYear(dateLike) ==
  LET s == trim(Nullish(dateLike, <<>>))
  IN  IF Len(s) = 8 /\ AllDigits(s) THEN slice(s, 0, 4)
      ELSE IF Len(s) = 4 /\ AllDigits(s) THEN s
      ELSE IF /\ Len(s) = 10
              /\ s[5] = "-" /\ s[8] = "-"
              /\ AllDigits(SubSeq(s, 1, 4)) /\ AllDigits(SubSeq(s, 6, 7))
              /\ AllDigits(SubSeq(s, 9, 10))
           THEN slice(s, 0, 4)
      ELSE <<>>

\* The values of the result column (johoegyeolgwa).
Success     == <<"SEONG", "GONG">>                \* U+C131 U+ACF5
NotFound    == <<"MI", "GEOM", "SAEK">>           \* U+BBF8 U+AC80 U+C0C9
Failed      == <<"SIL", "PAE">>                   \* U+C2E4 U+D328
FormatError == <<"HYEONG", "SIK", "OH", "RYU">>   \* U+D615 U+C2DD U+C624 U+B958

\* "empty value or not an ISBN"
NoteEmpty ==
  <<"BIN", " ", "GAPS", " ", "TTO", "NEUN", " ">> \o A("ISBN")
    \o <<" ", "HYEONG", "SIK", "YI", " ", "AH", "NIM">>

\* "an ISBN must be 10 or 13 digits"
NoteLength ==
  A("ISBN") \o <<"EUN", " ", "SUT", "JA", " ">> \o A("10")
    \o <<"JA", "RI", " ", "TTO", "NEUN", " ">> \o A("13")
    \o <<"JA", "RI", "YEO", "YA", " ", "HAM">>

\* "duplicate: earlier lookup result reused"
ReuseMarker ==
  <<"JUNG", "BOK", ":", " ", "YI", "JEON", " ", "JO", "HOE", " ",
    "GYEOL", "GWA", " ", "JAE", "SA", "YONG">>

\* "API fetch failed(timeout/connection): "
NoteFetchFailed ==
  A("API fetch ") \o <<"SIL", "PAE", "(", "TA", "IM", "AH", "UT", "/",
                       "YEON", "GYEOL", ")", ":", " ">>

\* "API response error: HTTP "
NoteHttpError ==
  A("API ") \o <<"EUNG", "DAP", " ", "OH", "RYU", ":", " ">> \o A("HTTP ")

\* "API JSON parse failed"
NoteJsonFailed == A("API JSON ") \o <<"PA", "SING", " ", "SIL", "PAE">>

\* "exception: " (index.js)
NoteException == <<"YE", "OE", ":", " ">>

RECURSIVE ToDecimal(_)
\* `${n}` for a natural number n.
ToDecimal(n) ==
  LET d == <<"0", "1", "2", "3", "4", "5", "6", "7", "8", "9">>
  IN  IF n < 10 THEN <<d[n + 1]>> ELSE ToDecimal(n \div 10) \o <<d[(n % 10) + 1]>>

\* ------------------------------------------------------------------------
\* Row builder.  The columns: isbn, doseomyeong (title), jeojamyeong
\* (author name), doseomyeong_jeojamyeong (title(author) label), chulpansa
\* (publisher), balhaengnyeondo (year), johoegyeolgwa (result), bigo (note).
\* ------------------------------------------------------------------------

\* makeRow of part_000, after const normA = normalizeAuthors(author)
makeRowWith(o, title, normA) ==
  [isbn                    |-> Nullish(Prop(o, "isbn"), <<>>),
   doseomyeong             |-> Nullish(title, <<>>),
   jeojamyeong             |-> normA.authorName,
   doseomyeong_jeojamyeong |-> IF Truthy(title)
                               THEN (IF normA.authorShort # <<>>
                                     THEN title \o A("(") \o normA.authorShort \o A(")")
                                     ELSE title)
                               ELSE <<>>,
   chulpansa               |-> Nullish(Prop(o, "publisher"), <<>>),
   balhaengnyeondo         |-> Nullish(Prop(o, "year"), <<>>),
   johoegyeolgwa           |-> Nullish(Prop(o, "status"), NotFound),
   bigo                    |-> Nullish(Prop(o, "note"), <<>>)]

makeRow(o) ==
  makeRowWith(o, Prop(o, "title"), normalizeAuthors(Nullish(Prop(o, "author"), <<>>)))

\* makeRow of index.js
makeRowIndexJs(o) ==
  LET title == Prop(o, "title")
      authorDisplay == formatAuthorDisplay(Nullish(Prop(o, "author"), <<>>))
      shown == IF authorDisplay # <<>> THEN authorDisplay ELSE Unknown
  IN  [isbn                    |-> Nullish(Prop(o, "isbn"), <<>>),
       doseomyeong             |-> Nullish(title, <<>>),
       jeojamyeong             |-> Nullish(Prop(o, "author"), <<>>),
       doseomyeong_jeojamyeong |-> IF Truthy(title)
                                   THEN title \o A("(") \o shown \o A(")")
                                   ELSE <<>>,
       chulpansa               |-> Nullish(Prop(o, "publisher"), <<>>),
       balhaengnyeondo         |-> Nullish(Prop(o, "year"), <<>>),
       johoegyeolgwa           |-> Nullish(Prop(o, "status"),
                                           IF Truthy(Prop(o, "found"))
                                           THEN Success ELSE NotFound),
       bigo                    |-> Nullish(Prop(o, "note"), <<>>)]

\* The row base of an outcome without bibliographic fields.
emptyBase(normIsbn, status, note) ==
  [isbn |-> normIsbn, title |-> <<>>, author |-> <<>>, publisher |-> <<>>,
   year |-> <<>>, status |-> status, note |-> note]

\* The same in index.js, which also carries found: false.
emptyBaseIndexJs(normIsbn, status, note) ==
  [isbn |-> normIsbn, title |-> <<>>, author |-> <<>>, publisher |-> <<>>,
   year |-> <<>>, found |-> JsFalse, status |-> status, note |-> note]

\* ------------------------------------------------------------------------
\* JSON of a row base: the properties in insertion order, as name/value
\* pairs; a property whose value is undefined is left out.
\* ------------------------------------------------------------------------

BaseKeys ==
  <<"isbn", "title", "author", "publisher", "year", "found", "status", "note">>

RECURSIVE StringifyFrom(_, _)
StringifyFrom(o, k) ==
  IF k > Len(BaseKeys) THEN <<>>
  ELSE (IF BaseKeys[k] \in DOMAIN o /\ o[BaseKeys[k]] # Undefined
        THEN << <<BaseKeys[k], o[BaseKeys[k]]>> >> ELSE <<>>)
         \o StringifyFrom(o, k + 1)

\* A serialisation that loses the year.
JSONstringifyWithoutYear(o) ==
  StringifyFrom([k \in DOMAIN o \ {"year"} |-> o[k]], 1)

JSONstringify(o) == StringifyFrom(o, 1)

\* cached.json(): the object of the stored pairs.
JSONparse(pairs) ==
  [k \in {pairs[j][1] : j \in 1..Len(pairs)} |->
     LET j == CHOOSE j \in 1..Len(pairs) :
                 pairs[j][1] = k /\ \A m \in (j + 1)..Len(pairs) : pairs[m][1] # k
     IN  pairs[j][2]]

\* ------------------------------------------------------------------------
\* Bounds and the values the environment supplies
\* ------------------------------------------------------------------------

MaxAttemptErrLen == 165    \* length of the long error message (more than 160)
MaxBodyLen       == 125    \* length of the long error body (more than 120)
LongBatchLen     == 501    \* length of the over-long identifier list (more than 500)
MaxBatches       == 3      \* requests in a sequence of requests (SpecSeq)

\* Raw identifiers: two spellings of one ISBN-13, an ISBN-10, eight digits,
\* no digit at all.
rA     == A("978-89-364-3412-0")
rA2    == A(" 9788936434120")
rB     == A("8936434120")
rShort == A("12345678")
rNone  == A("isbn")

\* Messages of the errors a fetch attempt can raise.
ErrAbort == A("The operation was aborted")          \* AbortController.abort()
ErrConn  == A("Network connection lost.")
ErrLong  == [n \in 1..MaxAttemptErrLen |-> "e"]
\* Message of res.json() on a body that is not JSON.
ErrSyntax == A("Unexpected token < in JSON at position 0")

AttemptErrors == {ErrConn, ErrLong}

\* A response body: text that is not JSON, a JSON value (an object as a
\* function on its property names), or a stream that fails while it is read.
TextBody(t) == [kind |-> "text", text |-> t, json |-> <<>>]
JsonBody(j) == [kind |-> "json", text |-> <<>>, json |-> j]
BrokenBody  == [kind |-> "broken", text |-> <<>>, json |-> <<>>]

BodyLong == [n \in 1..MaxBodyLen |-> "b"]

Doc1 ==
  [TITLE           |-> <<" ", "SO", "NYEON", "YI", " ", "ON", "DA">>,
   AUTHOR          |-> <<"HAN", "GANG", " ", "JI", "EUM">>,
   PUBLISHER       |-> <<"CHANG", "BI">>,
   PUBLISH_PREDATE |-> A("20140519")]

DocBlank == [TITLE |-> <<" ">>, AUTHOR |-> <<>>]

RespHttp500 == [ok |-> FALSE, status |-> 500, body |-> TextBody(BodyLong)]
RespHttp404 == [ok |-> FALSE, status |-> 404, body |-> BrokenBody]
RespOkHtml  == [ok |-> TRUE, status |-> 200, body |-> TextBody(A("<html>"))]
RespOkError ==
  [ok |-> TRUE, status |-> 200,
   body |-> JsonBody([ERR_CODE |-> A("010"), ERR_MESSAGE |-> A("bad key")])]
RespOkEmpty ==
  [ok |-> TRUE, status |-> 200,
   body |-> JsonBody([TOTAL_COUNT |-> A("0"), docs |-> <<>>])]
RespOkDoc ==
  [ok |-> TRUE, status |-> 200,
   body |-> JsonBody([TOTAL_COUNT |-> A("1"), docs |-> <<Doc1>>])]
RespOkBlank ==
  [ok |-> TRUE, status |-> 200,
   body |-> JsonBody([TOTAL_COUNT |-> A("1"), docs |-> <<DocBlank>>])]

Responses ==
  {RespHttp500, RespHttp404, RespOkHtml, RespOkError, RespOkEmpty, RespOkDoc,
   RespOkBlank}

NoRes == [ok |-> FALSE, status |-> 0, body |-> BrokenBody]

\* ------------------------------------------------------------------------
\* Outcomes of fetchFromNldOrCache: the row base, whether putCache is
\* called with it, and the max-age it is stored with.
\* ------------------------------------------------------------------------

MaxAge30d == 60 * 60 * 24 * 30

Outcome(base, put) == [base |-> base, put |-> put, maxAge |-> MaxAge30d]

\* part_000, fetchWithRetry raised e (its message) after the last attempt.
fetchFailedOutcome(normIsbn, e) ==
  Outcome(emptyBase(normIsbn, Failed, NoteFetchFailed \o slice(e, 0, 160)), FALSE)

\* A note with the whole body.
httpErrorNoteWhole(status, text) ==
  NoteHttpError \o ToDecimal(status)
    \o (IF text # <<>> THEN A(" (") \o text \o A(")") ELSE <<>>)

\* !res.ok, after safeText(res) gave text
httpErrorNote(status, text) ==
  NoteHttpError \o ToDecimal(status)
    \o (IF text # <<>> THEN A(" (") \o slice(text, 0, 120) \o A(")") ELSE <<>>)

httpErrorOutcome(normIsbn, status, text) ==
  Outcome(emptyBase(normIsbn, Failed, httpErrorNote(status, text)), FALSE)

httpErrorOutcomeIndexJs(normIsbn, status, text) ==
  Outcome(emptyBaseIndexJs(normIsbn, Failed, httpErrorNote(status, text)), FALSE)

\* A parse failure that is stored like a lookup that found nothing.
jsonFailedOutcomeStored(normIsbn) ==
  Outcome(emptyBase(normIsbn, Failed, NoteJsonFailed), TRUE)

\* part_000, res.json() raised
jsonFailedOutcome(normIsbn) ==
  Outcome(emptyBase(normIsbn, Failed, NoteJsonFailed), FALSE)

\* index.js, the catch of the whole lookup: e is the message of the error
exceptionOutcomeIndexJs(normIsbn, e) ==
  Outcome(emptyBaseIndexJs(normIsbn, Failed, NoteException \o slice(e, 0, 200)), FALSE)

\* Array.isArray(json?.docs) ? json.docs : []
docsOf(json) == IF "docs" \in DOMAIN json THEN json["docs"] ELSE <<>>

\* String(json?.TOTAL_COUNT ?? json?.totalCount ?? "").trim()
totalOf(json) ==
  trim(Nullish(Prop(json, "TOTAL_COUNT"), Nullish(Prop(json, "totalCount"), <<>>)))

\* String(d.X ?? d.x ?? "").trim()
field(d, upper, lower) == trim(Nullish(Prop(d, upper), Nullish(Prop(d, lower), <<>>)))

\* a || b for texts
OrElse(a, b) == IF a # <<>> THEN a ELSE b

\* part_000, the parsed body
jsonOutcome(normIsbn, json) ==
  IF docsOf(json) = <<>> \/ totalOf(json) = A("0")
  THEN Outcome(emptyBase(normIsbn, NotFound, <<>>), TRUE)
  ELSE LET d         == docsOf(json)[1]
           title     == field(d, "TITLE", "title")
           author    == field(d, "AUTHOR", "author")
           publisher == field(d, "PUBLISHER", "publisher")
           year      == OrElse(extractYear(Prop(d, "PUBLISH_PREDATE")),
                        OrElse(extractYear(Prop(d, "REAL_PUBLISH_DATE")),
                               extractYear(Prop(d, "PUBLISH_DATE"))))
           ok        == title # <<>> \/ author # <<>> \/ publisher # <<>>
       IN  Outcome([isbn |-> normIsbn, title |-> title, author |-> author,
                    publisher |-> publisher, year |-> year,
                    status |-> IF ok THEN Success ELSE NotFound,
                    note |-> <<>>], TRUE)

\* index.js, the parsed body
jsonOutcomeIndexJs(normIsbn, json) ==
  IF docsOf(json) = <<>> \/ totalOf(json) = A("0")
  THEN Outcome(emptyBaseIndexJs(normIsbn, NotFound, <<>>), TRUE)
  ELSE LET d         == docsOf(json)[1]
           title     == field(d, "TITLE", "title")
           author    == field(d, "AUTHOR", "author")
           publisher == field(d, "PUBLISHER", "publisher")
           year      == OrElse(extractYear(Prop(d, "PUBLISH_PREDATE")),
                               extractYear(Prop(d, "REAL_PUBLISH_DATE")))
           ok        == title # <<>> \/ author # <<>> \/ publisher # <<>>
       IN  Outcome([isbn |-> normIsbn, title |-> title, author |-> author,
                    publisher |-> publisher, year |-> year,
                    found |-> IF ok THEN JsTrue ELSE JsFalse,
                    status |-> IF ok THEN Success ELSE NotFound,
                    note |-> <<>>], TRUE)

\* ------------------------------------------------------------------------
\* State
\* ------------------------------------------------------------------------

VARIABLES
  impl,          \* "part_000" or "index_js": the handler this behaviour runs
  cache,         \* caches.default: cache key -> stored response
  puts,          \* putCache calls handed to ctx.waitUntil and not finished yet
  phase,         \* "idle", "running" (inside runPool), "responded"
  batchNo,       \* requests handled so far
  isbns,         \* body.isbns of the request
  input,         \* isbns.slice(0, 500)
  concurrency,   \* the clamped worker budget
  i,             \* runPool's shared cursor
  results,       \* runPool's results array: index -> row, for the written slots
  workers,       \* runPool's workers: their claimed index and where they stand
  calls,         \* the invocations of fetchFromNldOrCache of this request
  inBatchCache,  \* memo key -> the promise (an index into calls)
  response,      \* what the handler returned
  failedLast,    \* history: the identifiers the previous request resolved as failed
  request,       \* env.NLD_CERT_KEY and the body of the request being handled
  args,          \* the arguments of a row-building function called on its own
  returned       \* what that call returned

vars ==
  <<impl, cache, puts, phase, batchNo, isbns, input, concurrency, i, results,
    workers, calls, inBatchCache, response, failedLast, request, args, returned>>

Impls == {"part_000", "index_js"}

\* The position of the first element of a non-empty set of naturals.
MinOf(S) == CHOOSE x \in S : \A y \in S : x <= y

\* new Request(`https://cache.local/isbn/${normIsbn}`)
cacheKey(normIsbn) == A("https://cache.local/isbn/") \o normIsbn

makeRowOf(im, o) == IF im = "part_000" THEN makeRow(o) ELSE makeRowIndexJs(o)

\* A format check that forgets the length.
IsValidNormAnyLength(norm) == norm # <<>>

\* The two format checks of the task closure.
IsValidNorm(norm) ==
  /\ norm # <<>>
  /\ Len(norm) = 10 \/ Len(norm) = 13
  /\ AllDigits(norm)

\* A memo table keyed by the identifier as typed.
memoKeyRaw(rawIsbn) == rawIsbn

\* The key under which the task closure looks up and installs the promise.
memoKey(rawIsbn) == normalizeIsbn(rawIsbn)

\* isbns.slice(0, 500)
MaxBatch == 500
trimmed(list) == slice(list, 0, MaxBatch)

\* clampInt(body?.concurrency, 1, 10, 6) / (..., 1, 15, 8)
concurrencyOf(im, hint) ==
  IF im = "part_000" THEN clampInt(hint, 1, 10, 6) ELSE clampInt(hint, 1, 15, 8)

\* fetchWithRetry(url, options, 3500, 2)
retryCount == 2
timeoutMs  == 3500

\* sleep(200 * Math.pow(2, attempt))
RECURSIVE Pow2(_)
Pow2(n) == IF n = 0 THEN 1 ELSE 2 * Pow2(n - 1)
backoffMs(attempt) == 200 * Pow2(attempt)

\* A fresh invocation of fetchFromNldOrCache(normIsbn): it has called
\* caches.default.match and waits for it.
\*   pc       "match", "fetch", "sleep", "text", "json", "done", "raised"
\*   attempt  fetchWithRetry's loop variable; the attempts that failed
\*   lastErr  message of the last error a fetch attempt raised
\*   res      the response fetch resolved with
\*   value    the row the promise is fulfilled with (pc = "done")
\*   via      where the row comes from: "cache", "network"
\*   put      TRUE when this invocation called putCache
\*   stored   for a cache hit, the row returned when the entry was stored
\*   slept    the backoff sleeps taken, in milliseconds
NoRow == <<>>

newCall(normIsbn) ==
  [normIsbn |-> normIsbn, pc |-> "match", attempt |-> 0, lastErr |-> Undefined,
   res |-> NoRes, value |-> NoRow, via |-> "", put |-> FALSE, stored |-> NoRow,
   slept |-> <<>>]

\* A task closure that invokes fetchFromNldOrCache and forgets inBatchCache.set.
startTaskNoSet(cs, memo, rawIsbn) ==
  LET norm == normalizeIsbn(rawIsbn)
  IN  IF ~IsValidNorm(norm)
      THEN [calls |-> cs, memo |-> memo, promise |-> 0]
      ELSE [calls   |-> Append(cs, newCall(norm)),
            memo    |-> memo,
            promise |-> Len(cs) + 1]

\* The synchronous part of one task closure: validation, then the has/set on
\* inBatchCache, where the first occurrence invokes fetchFromNldOrCache.
\* promise is the index of the promise the task awaits, 0 when it returns
\* a format-error row at once.
startTask(cs, memo, rawIsbn) ==
  LET norm == normalizeIsbn(rawIsbn)
      key  == memoKey(rawIsbn)
  IN  IF ~IsValidNorm(norm)
      THEN [calls |-> cs, memo |-> memo, promise |-> 0]
      ELSE IF key \in DOMAIN memo
      THEN [calls |-> cs, memo |-> memo, promise |-> memo[key]]
      ELSE [calls   |-> Append(cs, newCall(norm)),
            memo    |-> (key :> (Len(cs) + 1)) @@ memo,
            promise |-> Len(cs) + 1]

\* A loop that stops one index early.
claimOneShort(ps, inp, w) ==
  LET idx == ps.i
  IN  IF idx >= Len(inp) - 1
      THEN [ps EXCEPT !.i = idx + 1,
                      !.workers = (w :> [idx |-> idx, pc |-> "exit", promise |-> 0]) @@ @]
      ELSE LET t == startTask(ps.calls, ps.memo, inp[idx + 1])
           IN  [ps EXCEPT !.i = idx + 1,
                          !.calls = t.calls,
                          !.memo = t.memo,
                          !.workers = (w :> [idx |-> idx, pc |-> "await",
                                             promise |-> t.promise]) @@ @]

\* One turn of a worker's loop up to its await: const idx = i++, the bound
\* check, and the synchronous part of taskFns[idx]().  ps is the state of
\* the pool: i, calls, memo (inBatchCache), workers.
claim(ps, inp, w) ==
  LET idx == ps.i
  IN  IF idx >= Len(inp)
      THEN [ps EXCEPT !.i = idx + 1,
                      !.workers = (w :> [idx |-> idx, pc |-> "exit", promise |-> 0]) @@ @]
      ELSE LET t == startTask(ps.calls, ps.memo, inp[idx + 1])
           IN  [ps EXCEPT !.i = idx + 1,
                          !.calls = t.calls,
                          !.memo = t.memo,
                          !.workers = (w :> [idx |-> idx, pc |-> "await",
                                             promise |-> t.promise]) @@ @]

\* A pool that starts a single worker whatever the budget.
startWorkersOne(ps, inp, w, count) == IF count = 0 THEN ps ELSE claim(ps, inp, 1)

RECURSIVE startWorkers(_, _, _, _)
\* new Array(Math.min(limit, n)).fill(0).map(async () => ...): the workers
\* w..count start one after the other, each running up to its first await.
startWorkers(ps, inp, w, count) ==
  IF w > count THEN ps ELSE startWorkers(claim(ps, inp, w), inp, w + 1, count)

firstIndexOfNormalized(list, normIsbn) ==
  LET hits == {k \in 0..(Len(list) - 1) : normalizeIsbn(list[k + 1]) = normIsbn}
  IN  IF hits = {} THEN -1 ELSE MinOf(hits)

\* A reuse note that replaces the note of the first occurrence.
reuseNoteReplacing(note) == ReuseMarker

\* The note of a duplicate row.
reuseNote(note) ==
  IF Truthy(note) THEN note \o A(" | ") \o ReuseMarker ELSE ReuseMarker

\* A duplicate row built anew from the identifier and the note alone.
duplicateRowRebuilt(baseRow, norm) ==
  makeRow([isbn |-> norm, note |-> reuseNote(baseRow.bigo)])

\* part_000: { ...baseRow, isbn: norm, "bigo": note }
duplicateRow(baseRow, norm) ==
  [baseRow EXCEPT !.isbn = norm, !.bigo = reuseNote(baseRow.bigo)]

\* index.js: { ...base, isbn: norm, note: base.note ? ... : marker }
duplicateRowIndexJs(base, norm) ==
  ("note" :> reuseNote(Prop(base, "note"))) @@ [base EXCEPT !.isbn = norm]

\* The row task idx returns; baseRow is the value of the promise it awaited.
taskRow(im, inp, idx, baseRow) ==
  LET rawIsbn == inp[idx + 1]
      norm    == normalizeIsbn(rawIsbn)
  IN  IF norm = <<>>
      THEN makeRowOf(im, IF im = "part_000"
                         THEN emptyBase(rawIsbn, FormatError, NoteEmpty)
                         ELSE emptyBaseIndexJs(rawIsbn, FormatError, NoteEmpty))
      ELSE IF ~IsValidNorm(norm)
      THEN makeRowOf(im, IF im = "part_000"
                         THEN emptyBase(norm, FormatError, NoteLength)
                         ELSE emptyBaseIndexJs(norm, FormatError, NoteLength))
      ELSE IF firstIndexOfNormalized(inp, norm) # idx
      THEN (IF im = "part_000" THEN duplicateRow(baseRow, norm)
                               ELSE duplicateRowIndexJs(baseRow, norm))
      ELSE [baseRow EXCEPT !.isbn = norm]

\* results.push(row): rows in the order the lookups complete.
writeSlotPush(res, idx, row) == (Cardinality(DOMAIN res) :> row) @@ res

\* results[idx] = row
writeSlot(res, idx, row) == (idx :> row) @@ res

CountStatus(res, status) ==
  Cardinality({k \in DOMAIN res : res[k].johoegyeolgwa = status})

\* A summary whose total is the length of the list as it was sent.
summaryOfRequested(res, n) ==
  [total    |-> Len(isbns),
   success  |-> CountStatus(res, Success),
   notFound |-> CountStatus(res, NotFound),
   failed   |-> CountStatus(res, Failed),
   invalid  |-> CountStatus(res, FormatError)]

summaryOf(res, n) ==
  [total    |-> n,
   success  |-> CountStatus(res, Success),
   notFound |-> CountStatus(res, NotFound),
   failed   |-> CountStatus(res, Failed),
   invalid  |-> CountStatus(res, FormatError)]

NoSummary == [total |-> 0, success |-> 0, notFound |-> 0, failed |-> 0, invalid |-> 0]

\* kind: "none", "ok" (the results and summary envelope), "error" (an error
\* envelope), "threw" (the handler raised)
NoResponse == [kind |-> "none", status |-> 0, summary |-> NoSummary]

\* An invocation settles: fulfilled with the row of outcome o, putCache called
\* when the outcome says so.
settle(call, o, im) ==
  [call EXCEPT !.pc = "done", !.value = makeRowOf(im, o.base), !.via = "network",
               !.put = o.put]

putOf(call, o, im) ==
  [key    |-> cacheKey(call.normIsbn),
   body   |-> JSONstringify(o.base),
   maxAge |-> o.maxAge,
   stored |-> makeRowOf(im, o.base)]

\* ------------------------------------------------------------------------
\* Initial state
\* ------------------------------------------------------------------------

EmptyCache == <<>>

\* A cache that an earlier request left behind: the entry of one lookup
\* that found the book.
WarmCache(im) ==
  LET norm == normalizeIsbn(rA)
      o    == IF im = "part_000" THEN jsonOutcome(norm, RespOkDoc.body.json)
              ELSE jsonOutcomeIndexJs(norm, RespOkDoc.body.json)
  IN  cacheKey(norm) :>
        [body |-> JSONstringify(o.base), maxAge |-> o.maxAge,
         stored |-> makeRowOf(im, o.base)]

NoRequest == [cred |-> TRUE, kind |-> "none"]

\* No function has been called on its own, and none has returned.
NoArgs == [title |-> <<>>, author |-> <<>>]
NoReturn == [fn |-> "none"]

InitRequest ==
  /\ puts = {}
  /\ phase = "idle"
  /\ batchNo = 0
  /\ isbns = <<>>
  /\ input = <<>>
  /\ concurrency = 0
  /\ i = 0
  /\ results = <<>>
  /\ workers = <<>>
  /\ calls = <<>>
  /\ inBatchCache = <<>>
  /\ response = NoResponse
  /\ failedLast = {}
  /\ request = NoRequest
  /\ returned = NoReturn

\* One request, arriving at a worker whose cache is empty or warm.
Init ==
  /\ impl \in Impls
  /\ cache \in {EmptyCache, WarmCache(impl)}
  /\ args = NoArgs
  /\ InitRequest

\* A freshly deployed worker: nothing cached.
InitSeq ==
  /\ impl \in Impls
  /\ cache = EmptyCache
  /\ args = NoArgs
  /\ InitRequest

\* ------------------------------------------------------------------------
\* Requests
\* ------------------------------------------------------------------------

\* cred: env.NLD_CERT_KEY is set; kind: "notjson" (request.json() raises),
\* "nolist" (body.isbns is not an array), "ok".
OkRequest(list, hint) ==
  [cred |-> TRUE, kind |-> "ok", isbns |-> list, concurrency |-> hint]

BadRequests ==
  { [cred |-> FALSE, kind |-> "ok", isbns |-> <<rA>>, concurrency |-> NotANumber],
    [cred |-> TRUE, kind |-> "notjson", isbns |-> <<>>, concurrency |-> NotANumber],
    [cred |-> TRUE, kind |-> "nolist", isbns |-> <<>>, concurrency |-> NotANumber] }

\* The identifier lists of a single request.
Batches ==
  { <<>>,
    <<rA>>,
    <<rNone, rShort>>,
    <<rA, rA2>>,
    <<rA, rShort, rA>>,
    <<rA, rB, rA2>>,
    <<rShort, rB, rB>> }

LongIsbns == [n \in 1..LongBatchLen |-> IF n % 2 = 1 THEN <<"x">> ELSE <<"7">>]

Requests ==
  BadRequests
    \cup {OkRequest(b, NotANumber) : b \in Batches}
    \cup {OkRequest(<<rA, rB, rA2>>, Num(0)), OkRequest(<<rA, rB, rA2>>, Num(2)),
          OkRequest(<<rA>>, Num(99))}
    \cup {OkRequest(LongIsbns, Num(1))}

\* The requests of a sequence of requests.
SeqRequests ==
  BadRequests
    \cup {OkRequest(b, NotANumber) : b \in {<<rA>>, <<rShort>>, <<rA2, rA>>}}

\* ------------------------------------------------------------------------
\* Scheduling.  JavaScript runs a callback and the continuations it enables
\* to completion before it delivers the next input/output event: while some
\* worker's await can return, or Promise.all can resolve, no cache lookup,
\* fetch, timer or cache write completes.
\* ------------------------------------------------------------------------

\* Worker w's await can return: its task returned a format-error row at
\* once, or the promise the task awaits is settled.
ready(w) ==
  /\ workers[w].pc = "await"
  /\ IF workers[w].promise = 0 THEN TRUE
     ELSE calls[workers[w].promise].pc \in {"done", "raised"}

\* The invocations of this request that ended with a failed row.
failedCalls ==
  {c \in DOMAIN calls : calls[c].pc = "done" /\ calls[c].value.johoegyeolgwa = Failed}

AllExited == \A w \in DOMAIN workers : workers[w].pc = "exit"

\* No continuation of the running request is pending.
Quiescent ==
  phase = "running" => /\ \A w \in DOMAIN workers : ~ready(w)
                       /\ ~AllExited

\* ------------------------------------------------------------------------
\* Actions
\* ------------------------------------------------------------------------

\* fetch(request, env, ctx) up to its first await inside runPool: the checks
\* of the request, the slice, the clamp, and the start of the workers.
\* The handler returns an error envelope before it looks at any identifier.
rejectedBodyOnly(r) == r.kind # "ok"

rejected(r) == ~r.cred \/ r.kind # "ok"

HandleRequest(r) ==
  /\ batchNo' = batchNo + 1
  /\ request' = [cred |-> r.cred, kind |-> r.kind]
  /\ UNCHANGED <<args, returned>>
  /\ UNCHANGED <<impl, cache, puts>>
  /\ failedLast' = {calls[c].normIsbn : c \in failedCalls}
  /\ results' = <<>>
  /\ IF rejected(r)
     THEN /\ phase' = "responded"
          /\ response' = [kind |-> "error", status |-> IF ~r.cred THEN 500 ELSE 400,
                          summary |-> NoSummary]
          /\ isbns' = <<>>
          /\ input' = <<>>
          /\ concurrency' = 0
          /\ i' = 0
          /\ workers' = <<>>
          /\ calls' = <<>>
          /\ inBatchCache' = <<>>
     ELSE LET inp   == trimmed(r.isbns)
              limit == concurrencyOf(impl, r.concurrency)
              ps    == startWorkers([i |-> 0, calls |-> <<>>, memo |-> <<>>,
                                     workers |-> <<>>],
                                    inp, 1, Min(limit, Len(inp)))
          IN  /\ phase' = "running"
              /\ response' = NoResponse
              /\ isbns' = r.isbns
              /\ input' = inp
              /\ concurrency' = limit
              /\ i' = ps.i
              /\ workers' = ps.workers
              /\ calls' = ps.calls
              /\ inBatchCache' = ps.memo

\* The first request.
Fetch ==
  /\ phase = "idle"
  /\ \E r \in Requests : HandleRequest(r)

\* The outcome of caches.default.match(cacheKey): on a hit the stored body is
\* parsed and its row returned; on a miss the first fetch is issued.
afterMatch(call, store, im) ==
  LET key == cacheKey(call.normIsbn)
  IN  IF key \in DOMAIN store
      THEN [call EXCEPT !.pc = "done",
                        !.value = makeRowOf(im, JSONparse(store[key].body)),
                        !.via = "cache",
                        !.stored = store[key].stored]
      ELSE [call EXCEPT !.pc = "fetch"]

\* caches.default.match(cacheKey) settles.
CacheMatch(c) ==
  /\ phase = "running"
  /\ Quiescent
  /\ calls[c].pc = "match"
  /\ calls' = [calls EXCEPT ![c] = afterMatch(@, cache, impl)]
  /\ UNCHANGED <<args, returned, request, failedLast, impl, cache, puts, phase, batchNo, isbns, input, concurrency, i,
                 results, workers, inBatchCache, response>>

\* caches.default.match(cacheKey) rejects: no try block surrounds it, so the
\* promise of fetchFromNldOrCache is rejected.
CacheMatchRaises(c) ==
  /\ phase = "running"
  /\ Quiescent
  /\ calls[c].pc = "match"
  /\ calls' = [calls EXCEPT ![c].pc = "raised"]
  /\ UNCHANGED <<args, returned, request, failedLast, impl, cache, puts, phase, batchNo, isbns, input, concurrency, i,
                 results, workers, inBatchCache, response>>

\* What follows a fetch attempt that raised e.  part_000: fetchWithRetry
\* keeps the error and sleeps.  index.js: the catch block returns the row.
afterAttemptError(call, e, im) ==
  IF im = "part_000"
  THEN [call EXCEPT !.lastErr = e, !.pc = "sleep",
                    !.slept = Append(@, backoffMs(call.attempt))]
  ELSE settle([call EXCEPT !.lastErr = e],
              exceptionOutcomeIndexJs(call.normIsbn, e), im)

\* The fetch in flight raises (connection error).
FetchRaises(c) ==
  /\ phase = "running"
  /\ Quiescent
  /\ calls[c].pc = "fetch"
  /\ \E e \in AttemptErrors :
       calls' = [calls EXCEPT ![c] = afterAttemptError(@, e, impl)]
  /\ UNCHANGED <<args, returned, request, failedLast, impl, cache, puts, phase, batchNo, isbns, input, concurrency, i,
                 results, workers, inBatchCache, response>>

\* part_000, fetchWithTimeout: the timer fires while the fetch is in flight
\* and aborts it.
AttemptTimeout(c) ==
  /\ phase = "running"
  /\ Quiescent
  /\ impl = "part_000"
  /\ calls[c].pc = "fetch"
  /\ calls' = [calls EXCEPT ![c] = afterAttemptError(@, ErrAbort, impl)]
  /\ UNCHANGED <<args, returned, request, failedLast, impl, cache, puts, phase, batchNo, isbns, input, concurrency, i,
                 results, workers, inBatchCache, response>>

\* A loop that stops one attempt early.
afterSleepOneRetry(call, im) ==
  IF call.attempt + 1 < retryCount
  THEN [call EXCEPT !.attempt = @ + 1, !.pc = "fetch"]
  ELSE [settle(call, fetchFailedOutcome(call.normIsbn, call.lastErr), im)
          EXCEPT !.attempt = call.attempt + 1]

\* What follows the backoff sleep: attempt++, then the next attempt while
\* attempt <= retryCount, else throw lastErr, which fetchFromNldOrCache
\* catches.
afterSleep(call, im) ==
  IF call.attempt + 1 <= retryCount
  THEN [call EXCEPT !.attempt = @ + 1, !.pc = "fetch"]
  ELSE [settle(call, fetchFailedOutcome(call.normIsbn, call.lastErr), im)
          EXCEPT !.attempt = call.attempt + 1]

\* part_000, fetchWithRetry: the backoff sleep ends.
SleepDone(c) ==
  /\ phase = "running"
  /\ Quiescent
  /\ calls[c].pc = "sleep"
  /\ calls' = [calls EXCEPT ![c] = afterSleep(@, impl)]
  /\ UNCHANGED <<args, returned, request, failedLast, impl, cache, puts, phase, batchNo, isbns, input, concurrency, i,
                 results, workers, inBatchCache, response>>

\* What follows a fetch that resolved with response r: the body of a
\* response that is not ok is read as text, that of an ok response as JSON.
afterResponse(call, r) ==
  [call EXCEPT !.res = r, !.pc = IF r.ok THEN "json" ELSE "text"]

\* The fetch in flight resolves with a response.
FetchResponds(c) ==
  /\ phase = "running"
  /\ Quiescent
  /\ calls[c].pc = "fetch"
  /\ \E r \in Responses : calls' = [calls EXCEPT ![c] = afterResponse(@, r)]
  /\ UNCHANGED <<args, returned, request, failedLast, impl, cache, puts, phase, batchNo, isbns, input, concurrency, i,
                 results, workers, inBatchCache, response>>

\* safeText(res): the text of the body, "" when reading it raises.
safeText(res) == IF res.body.kind = "text" THEN res.body.text ELSE <<>>

\* The outcome once the body of call.res has been read.
bodyOutcome(call, im) ==
  IF call.pc = "text"
  THEN (IF im = "part_000"
        THEN httpErrorOutcome(call.normIsbn, call.res.status, safeText(call.res))
        ELSE httpErrorOutcomeIndexJs(call.normIsbn, call.res.status,
                                     safeText(call.res)))
  ELSE IF call.res.body.kind = "json"
  THEN (IF im = "part_000" THEN jsonOutcome(call.normIsbn, call.res.body.json)
        ELSE jsonOutcomeIndexJs(call.normIsbn, call.res.body.json))
  ELSE IF im = "part_000" THEN jsonFailedOutcome(call.normIsbn)
  ELSE exceptionOutcomeIndexJs(call.normIsbn,
         IF call.res.body.kind = "text" THEN ErrSyntax ELSE ErrConn)

\* safeText(res) or res.json() settles; the row is built and, for the
\* outcomes that say so, ctx.waitUntil(putCache(...)) is called.
BodyRead(c) ==
  /\ phase = "running"
  /\ Quiescent
  /\ calls[c].pc \in {"text", "json"}
  /\ LET o == bodyOutcome(calls[c], impl)
     IN  /\ calls' = [calls EXCEPT ![c] = settle(@, o, impl)]
         /\ puts' = IF o.put THEN puts \cup {putOf(calls[c], o, impl)} ELSE puts
  /\ UNCHANGED <<args, returned, request, failedLast, impl, cache, phase, batchNo, isbns, input, concurrency, i,
                 results, workers, inBatchCache, response>>

\* putCache: caches.default.put(cacheKey, resp) completes.
PutLands ==
  /\ Quiescent
  /\ \E p \in puts :
       /\ cache' = (p.key :> [body |-> p.body, maxAge |-> p.maxAge,
                              stored |-> p.stored]) @@ cache
       /\ puts' = puts \ {p}
  /\ UNCHANGED <<args, returned, request, failedLast, impl, phase, batchNo, isbns, input, concurrency, i, results,
                 workers, calls, inBatchCache, response>>

\* A worker's await returns: the task's row is written into its slot and the
\* worker takes the next turn of its loop.  When the awaited promise was
\* rejected, the task, the worker and Promise.all reject and the handler
\* raises.
WorkerResume(w) ==
  /\ phase = "running"
  /\ ready(w)
  /\ LET wk == workers[w]
     IN  IF wk.promise # 0 /\ calls[wk.promise].pc = "raised"
         THEN /\ workers' = [workers EXCEPT ![w].pc = "threw"]
              /\ phase' = "responded"
              /\ response' = [kind |-> "threw", status |-> 500,
                              summary |-> NoSummary]
              /\ UNCHANGED <<i, results, calls, inBatchCache>>
         ELSE LET row == taskRow(impl, input, wk.idx,
                                 IF wk.promise = 0 THEN NoRow
                                 ELSE calls[wk.promise].value)
                  ps  == claim([i |-> i, calls |-> calls, memo |-> inBatchCache,
                                workers |-> workers], input, w)
              IN  /\ results' = writeSlot(results, wk.idx, row)
                  /\ i' = ps.i
                  /\ workers' = ps.workers
                  /\ calls' = ps.calls
                  /\ inBatchCache' = ps.memo
                  /\ UNCHANGED <<phase, response>>
  /\ UNCHANGED <<args, returned, request, failedLast, impl, cache, puts, batchNo, isbns, input, concurrency>>

\* Promise.all(workers) resolves: runPool returns the results, the summary is
\* counted and the envelope returned.
Respond ==
  /\ phase = "running"
  /\ AllExited
  /\ phase' = "responded"
  /\ response' = [kind |-> "ok", status |-> 200,
                  summary |-> summaryOf(results, Len(input))]
  /\ UNCHANGED <<args, returned, request, failedLast, impl, cache, puts, batchNo, isbns, input, concurrency, i,
                 results, workers, calls, inBatchCache>>

\* A later request, after the earlier one was answered.
FetchAgain ==
  /\ phase = "responded"
  /\ batchNo < MaxBatches
  /\ \E r \in SeqRequests : HandleRequest(r)

\* The first of a sequence of requests.
FetchFirst ==
  /\ phase = "idle"
  /\ \E r \in SeqRequests : HandleRequest(r)

Next ==
  \/ Fetch
  \/ \E c \in DOMAIN calls : CacheMatch(c)
  \/ \E c \in DOMAIN calls : CacheMatchRaises(c)
  \/ \E c \in DOMAIN calls : FetchRaises(c)
  \/ \E c \in DOMAIN calls : AttemptTimeout(c)
  \/ \E c \in DOMAIN calls : SleepDone(c)
  \/ \E c \in DOMAIN calls : FetchResponds(c)
  \/ \E c \in DOMAIN calls : BodyRead(c)
  \/ PutLands
  \/ \E w \in DOMAIN workers : WorkerResume(w)
  \/ Respond

NextSeq ==
  \/ FetchFirst
  \/ FetchAgain
  \/ \E c \in DOMAIN calls : CacheMatch(c)
  \/ \E c \in DOMAIN calls : CacheMatchRaises(c)
  \/ \E c \in DOMAIN calls : FetchRaises(c)
  \/ \E c \in DOMAIN calls : AttemptTimeout(c)
  \/ \E c \in DOMAIN calls : SleepDone(c)
  \/ \E c \in DOMAIN calls : FetchResponds(c)
  \/ \E c \in DOMAIN calls : BodyRead(c)
  \/ PutLands
  \/ \E w \in DOMAIN workers : WorkerResume(w)
  \/ Respond

\* One request against an empty or warm cache.
Spec == Init /\ [][Next]_vars

\* A sequence of requests against a cache that starts empty.
SpecSeq == InitSeq /\ [][NextSeq]_vars

\* The requests of the specification with fairness: no row, more workers
\* allowed than rows, duplicates that wait on a pending lookup, fewer
\* workers than rows.
LiveRequests ==
  BadRequests
    \cup { OkRequest(<<>>, NotANumber),
           OkRequest(<<rA>>, Num(99)),
           OkRequest(<<rA, rShort, rA2>>, NotANumber),
           OkRequest(<<rA, rA2, rShort>>, Num(2)) }

\* The request of the specification with fairness.
FetchLive ==
  /\ phase = "idle"
  /\ \E r \in LiveRequests : HandleRequest(r)

NextLive ==
  \/ FetchLive
  \/ \E c \in DOMAIN calls : CacheMatch(c)
  \/ \E c \in DOMAIN calls : CacheMatchRaises(c)
  \/ \E c \in DOMAIN calls : FetchRaises(c)
  \/ \E c \in DOMAIN calls : AttemptTimeout(c)
  \/ \E c \in DOMAIN calls : SleepDone(c)
  \/ \E c \in DOMAIN calls : FetchResponds(c)
  \/ \E c \in DOMAIN calls : BodyRead(c)
  \/ PutLands
  \/ \E w \in DOMAIN workers : WorkerResume(w)
  \/ Respond

\* One request, with the fairness of the event loop: a continuation that can
\* run does run (a worker whose await can return resumes, Promise.all that
\* can resolve resolves).  Nothing is assumed of the cache and the upstream.
SpecLive ==
  /\ Init
  /\ [][NextLive]_vars
  /\ WF_vars(\E w \in DOMAIN workers : WorkerResume(w))
  /\ WF_vars(Respond)

\* ------------------------------------------------------------------------
\* makeRow and normalizeAuthors called on their own
\* ------------------------------------------------------------------------

\* "jieum: gimcheolsu, geurim iyeonghui": role word, colon, name, comma,
\* role word, name.
RoleTaggedTwoNames ==
  <<"JI", "EUM", ":", " ", "GIM", "CHEOL", "SU", ",", " ",
    "GEU", "RIM", " ", "YI", "YEONG", "HUI">>

\* Author texts as the catalogue delivers them.
AuthorTexts ==
  { <<>>,
    <<" ">>,
    <<"NBSP", " ">>,
    RoleTaggedTwoNames,
    <<"GIM", "CHEOL", "SU">>,
    <<"GIM", "CHEOL", "SU", " ", "JI", "EUM">>,
    <<"GIM", "CHEOL", "SU", " ", "JI", "EUM", ",", " ",
      "YI", "YEONG", "HUI", " ", "GEU", "RIM">>,
    <<"JEO", "JA", ":", " ", "GIM", "CHEOL", "SU">>,
    <<"JI", "EUN", "YI", ":", " ", "GIM", "CHEOL", "SU">>,
    <<"JI", "EUN", "YI", ":", " ", "GIM", "CHEOL", "SU", ",", " ",
      "OLM", "GIN", "YI", ":", " ", "BAK", "MIN", "HO">>,
    A("John Smith and Jane Doe"),
    A("John Smith (ed.) & Jane Doe"),
    A("John Smith"),
    A("12345"),
    A("et al."),
    A("(unknown)"),
    <<"GIM", "CHEOL", "SU", " ", "OE">>,
    <<"GIM", "CHEOL", "SU", ";", "YI", "YEONG", "HUI", "MIDDOT">> \o A("Tom O'Neil"),
    <<"JEO", "SUL", "JA", " ", "BAK", "YEONG", "HUI", " ", "DEUNG">>,
    <<"GIM", "CHEOL", "SU", " ", "[", "YEOK", "]", " ", "/", " ",
      "YI", "YEONG", "HUI", " ", "{", "x", "}", " ", "OLM", "GIM">>,
    <<"JEO", " ", "GIM", "CHEOL", "SU", " ", "a", "n", "d", " ",
      "YI", "YEONG", "HUI", " ", "OE">>,
    <<"JI", "EUM">>,
    <<"GEU", "RIM", ":", " ">> }

\* title of a row base: absent, empty, or a title.
Titles == {Undefined, <<>>, A("Book")}

PureArgs == [title : Titles, author : AuthorTexts]

InitPure ==
  /\ impl \in Impls
  /\ cache = EmptyCache
  /\ args \in PureArgs
  /\ InitRequest

\* makeRow({ isbn, title, author })
CallMakeRow ==
  /\ returned = NoReturn
  /\ returned' = [fn |-> "makeRow",
                  value |-> makeRowOf(impl, [isbn   |-> A("8936434120"),
                                             title  |-> args.title,
                                             author |-> args.author])]
  /\ UNCHANGED <<args, request, failedLast, impl, cache, puts, phase, batchNo, isbns,
                 input, concurrency, i, results, workers, calls, inBatchCache,
                 response>>

\* normalizeAuthors(author); part_000 only, index.js has no such function.
CallNormalizeAuthors ==
  /\ returned = NoReturn
  /\ impl = "part_000"
  /\ returned' = [fn |-> "normalizeAuthors", value |-> normalizeAuthors(args.author)]
  /\ UNCHANGED <<args, request, failedLast, impl, cache, puts, phase, batchNo, isbns,
                 input, concurrency, i, results, workers, calls, inBatchCache,
                 response>>

NextPure == CallMakeRow \/ CallNormalizeAuthors

SpecPure == InitPure /\ [][NextPure]_vars

\* One request, with the fairness of the event loop and of the timers: the
\* timer of fetchWithTimeout fires while its fetch is pending, and the timer
\* of sleep fires.  Nothing is assumed of the cache and the upstream.
SpecTimed ==
  /\ Init
  /\ [][NextLive]_vars
  /\ WF_vars(\E w \in DOMAIN workers : WorkerResume(w))
  /\ WF_vars(Respond)
  /\ WF_vars(\E c \in DOMAIN calls : AttemptTimeout(c))
  /\ WF_vars(\E c \in DOMAIN calls : SleepDone(c))

\* ------------------------------------------------------------------------
\* One request of two workers with a slow lookup
\* ------------------------------------------------------------------------

SlowRequests ==
  { OkRequest(<<rA, rB>>, Num(2)),
    OkRequest(<<rA, rA2, rB>>, Num(2)) }

FetchSlow ==
  /\ phase = "idle"
  /\ \E r \in SlowRequests : HandleRequest(r)

NextSlow ==
  \/ FetchSlow
  \/ \E c \in DOMAIN calls : CacheMatch(c)
  \/ \E c \in DOMAIN calls : CacheMatchRaises(c)
  \/ \E c \in DOMAIN calls : FetchRaises(c)
  \/ \E c \in DOMAIN calls : AttemptTimeout(c)
  \/ \E c \in DOMAIN calls : SleepDone(c)
  \/ \E c \in DOMAIN calls : FetchResponds(c)
  \/ \E c \in DOMAIN calls : BodyRead(c)
  \/ PutLands
  \/ \E w \in DOMAIN workers : WorkerResume(w)
  \/ Respond

\* Promise.all that can resolve does resolve; nothing is assumed of the cache
\* and the upstream.  That the continuation of a settled await runs is a
\* hypothesis of the properties checked here (ContinuationsRun).
SpecSlow ==
  /\ InitSeq
  /\ [][NextSlow]_vars
  /\ WF_vars(Respond)

TypeOK ==
  /\ impl \in Impls
  /\ phase \in {"idle", "running", "responded"}
  /\ batchNo \in 0..MaxBatches
  /\ i \in 0..(Len(input) + 15)

\* ------------------------------------------------------------------------
\* Properties
\* ------------------------------------------------------------------------

\* The handler answered with the results and summary envelope.
Answered == phase = "responded" /\ response.kind = "ok"

\* The digits-only form of the identifier at position k (from 0).
NormAt(k) == normalizeIsbn(input[k + 1])

\* The digits-only form has 10 or 13 digits.
GoodLength(norm) == Len(norm) \in {10, 13}

\* The positions of the batch whose identifier is valid.
ValidPositions == {k \in 0..(Len(input) - 1) : GoodLength(NormAt(k))}

\* The invocations of fetchFromNldOrCache for normIsbn.
CallsFor(normIsbn) == {c \in DOMAIN calls : calls[c].normIsbn = normIsbn}

\* The first position whose identifier has the digits-only form of position k.
FirstOf(k) == MinOf({f \in 0..k : NormAt(f) = NormAt(k)})

\* C1: within one batch fetchFromNldOrCache is invoked at most once per
\* distinct valid normalized identifier, whatever the worker budget and the
\* interleaving, however many positions normalize to it; it is invoked only
\* for identifiers of the batch.
C1_AtMostOneCallPerIdentifier ==
  /\ \A c1, c2 \in DOMAIN calls :
       calls[c1].normIsbn = calls[c2].normIsbn => c1 = c2
  /\ \A k \in ValidPositions : Cardinality(CallsFor(NormAt(k))) <= 1
  /\ Len(calls) <= Cardinality({NormAt(k) : k \in ValidPositions})

\* Two positions spell one valid identifier differently, both tasks have run
\* and the batch is answered with a single invocation.
C1_Witness ==
  /\ Answered
  /\ \E p, q \in ValidPositions :
       /\ p # q
       /\ input[p + 1] # input[q + 1]
       /\ NormAt(p) = NormAt(q)
       /\ Cardinality(CallsFor(NormAt(p))) = 1

\* The row resolved for position k: its identifier is that of input[k]; a
\* position with an invalid identifier has the format-error row, any other
\* the fields of the outcome of its identifier's lookup.
IsRowOf(row, k) ==
  IF NormAt(k) = <<>>
  THEN row.isbn = input[k + 1] /\ row.johoegyeolgwa = FormatError
  ELSE IF ~GoodLength(NormAt(k))
  THEN row.isbn = NormAt(k) /\ row.johoegyeolgwa = FormatError
  ELSE /\ row.isbn = NormAt(k)
       /\ \E c \in CallsFor(NormAt(k)) :
            /\ calls[c].pc = "done"
            /\ row.doseomyeong = calls[c].value.doseomyeong
            /\ row.jeojamyeong = calls[c].value.jeojamyeong
            /\ row.chulpansa = calls[c].value.chulpansa
            /\ row.balhaengnyeondo = calls[c].value.balhaengnyeondo
            /\ row.johoegyeolgwa = calls[c].value.johoegyeolgwa

\* C2: output order matches input order: every written slot results[k] holds
\* the row resolved for input[k], whatever the worker budget and the order in
\* which the lookups complete, and the answered batch has exactly
\* min(n, 500) rows for n identifiers, one per position, duplicates included.
C2_OutputOrderMatchesInput ==
  /\ \A k \in DOMAIN results : k \in 0..(Len(input) - 1) /\ IsRowOf(results[k], k)
  /\ Answered => /\ DOMAIN results = 0..(Min(Len(isbns), 500) - 1)
                  /\ Cardinality(DOMAIN results) = Min(Len(isbns), 500)

\* A later position's lookup completed, and its row was written, before an
\* earlier position's.
C2_Witness ==
  /\ phase = "running"
  /\ \E k \in DOMAIN results :
       /\ k > 0
       /\ 0 \notin DOMAIN results
       /\ k \in ValidPositions
       /\ 0 \in ValidPositions
       /\ NormAt(k) # NormAt(0)

\* The positions that are not the first of their valid identifier.
DuplicatePositions == {k \in ValidPositions : FirstOf(k) # k}

\* C3: in the handler of part_000, the note of every row at a position that
\* is not the first of its valid identifier is the first occurrence's note
\* with the reuse marker appended (the marker alone when that note is
\* empty), and the row at the first position carries no reuse marker.
C3_DuplicateNoteAppended ==
  (impl = "part_000" /\ Answered) =>
    \A k \in ValidPositions :
      LET first == results[FirstOf(k)].bigo
      IN  IF FirstOf(k) = k
          THEN ~includes(results[k].bigo, ReuseMarker)
          ELSE results[k].bigo =
                 IF first = <<>> THEN ReuseMarker
                 ELSE first \o A(" | ") \o ReuseMarker

\* A duplicate position whose first occurrence failed, so that its note is
\* not empty.
C3_Witness ==
  /\ impl = "part_000"
  /\ Answered
  /\ \E k \in DuplicatePositions :
       /\ results[FirstOf(k)].bigo # <<>>
       /\ Len(results[k].bigo) > Len(results[FirstOf(k)].bigo)

\* C4: in the handler of index.js, the note field of every row at a position
\* that is not the first of its valid identifier contains the reuse marker.
C4_IndexJsDuplicateNoteMarked ==
  (impl = "index_js" /\ Answered) =>
    \A k \in DuplicatePositions : includes(results[k].bigo, ReuseMarker)

\* C5: an identifier whose digits-only form is empty or has a length other
\* than 10 or 13 gets a format-error row with empty title, author, publisher
\* and year; no invocation of fetchFromNldOrCache (so no cache lookup and no
\* upstream call) is made for it and nothing is installed in inBatchCache.
C5_InvalidIdentifierIsFormatError ==
  /\ \A k \in DOMAIN results :
       ~GoodLength(NormAt(k)) =>
         /\ results[k].johoegyeolgwa = FormatError
         /\ results[k].doseomyeong = <<>>
         /\ results[k].jeojamyeong = <<>>
         /\ results[k].chulpansa = <<>>
         /\ results[k].balhaengnyeondo = <<>>
  /\ \A c \in DOMAIN calls : GoodLength(calls[c].normIsbn)
  /\ \A key \in DOMAIN inBatchCache : GoodLength(key)

\* A batch with an identifier without digits and one of eight digits is
\* answered.
C5_Witness ==
  /\ Answered
  /\ \E k, m \in DOMAIN results :
       /\ NormAt(k) = <<>>
       /\ NormAt(m) # <<>> /\ ~GoodLength(NormAt(m))

\* The status stored in a cache entry's body.
StoredStatus(body) == Prop(JSONparse(body), "status")

\* The invocation made at least one upstream attempt.
Attempted(call) == call.res # NoRes \/ call.lastErr # Undefined

\* The invocations that returned a row.
Done == {c \in DOMAIN calls : calls[c].pc = "done"}

\* C6: an outcome is written to the persistent cache if and only if its
\* status is success or not-found: whatever the sequence of batches, the
\* cache (and every write under way) holds no failed or format-error entry,
\* and an invocation that ends failed did attempt the network call, also
\* when the previous request already failed on the identifier.
C6_OnlySuccessAndNotFoundCached ==
  /\ \A key \in DOMAIN cache : StoredStatus(cache[key].body) \in {Success, NotFound}
  /\ \A p \in puts : StoredStatus(p.body) \in {Success, NotFound}
  /\ \A c \in Done :
       /\ calls[c].via = "network" =>
            (calls[c].put <=> calls[c].value.johoegyeolgwa \in {Success, NotFound})
       /\ calls[c].put =>
            \/ cacheKey(calls[c].normIsbn) \in DOMAIN cache
            \/ \E p \in puts : p.key = cacheKey(calls[c].normIsbn)
       /\ calls[c].value.johoegyeolgwa = Failed =>
            calls[c].via = "network" /\ Attempted(calls[c])
       /\ calls[c].value.johoegyeolgwa # FormatError

\* An identifier failed in the previous request, nothing is stored for it,
\* and its lookup by this request attempted the network and failed again.
C6_Witness ==
  /\ batchNo >= 2
  /\ \E c \in Done :
       /\ calls[c].normIsbn \in failedLast
       /\ cacheKey(calls[c].normIsbn) \notin DOMAIN cache
       /\ calls[c].value.johoegyeolgwa = Failed
       /\ Attempted(calls[c])

\* C7: cache round trip: when the cache holds an entry for the identifier,
\* the lookup returns a row identical to the row returned when the entry was
\* stored, and makes no upstream call.
C7_CacheRoundTrip ==
  [][\A c \in DOMAIN calls :
       ( /\ batchNo' = batchNo
         /\ calls[c].pc = "match"
         /\ calls'[c].pc \notin {"match", "raised"}
         /\ cacheKey(calls[c].normIsbn) \in DOMAIN cache )
       => /\ calls'[c].pc = "done"
          /\ calls'[c].via = "cache"
          /\ calls'[c].value = cache[cacheKey(calls[c].normIsbn)].stored
          /\ ~Attempted(calls'[c])
          /\ calls'[c].slept = <<>>
          /\ ~calls'[c].put]_vars

\* A later request is served the stored success row of an identifier that
\* an earlier request looked up.
C7_Witness ==
  /\ batchNo >= 2
  /\ \E c \in Done :
       /\ calls[c].via = "cache"
       /\ calls[c].value = calls[c].stored
       /\ calls[c].value.johoegyeolgwa = Success
       /\ calls[c].value.balhaengnyeondo # <<>>
       /\ ~Attempted(calls[c])

\* The upstream attempts an invocation has made.
AttemptsMade(call) ==
  Len(call.slept)
    + (IF call.pc \in {"fetch", "text", "json"} \/ call.res # NoRes THEN 1 ELSE 0)

\* The row of the outcome derived from response res for normIsbn.
RowOfResponse(normIsbn, res) ==
  makeRow(bodyOutcome([newCall(normIsbn) EXCEPT
                         !.res = res,
                         !.pc = IF res.ok THEN "json" ELSE "text"],
                      "part_000").base)

\* The retry policy of part_000 with the note of the last case left open:
\* at most 3 attempts; after 2 failed attempts the outcome is the one derived
\* from the 3rd attempt's response; after 3 failed attempts the row is failed
\* and its note is noteOk of the note and the last error text.
RetryPolicy(noteOk(_, _)) ==
  impl = "part_000" =>
    \A c \in DOMAIN calls :
      /\ AttemptsMade(calls[c]) <= 3
      /\ (c \in Done /\ Len(calls[c].slept) = 2 /\ calls[c].res # NoRes) =>
           /\ calls[c].value = RowOfResponse(calls[c].normIsbn, calls[c].res)
           /\ calls[c].res = RespOkDoc => calls[c].value.johoegyeolgwa = Success
      /\ (c \in Done /\ calls[c].via = "network" /\ calls[c].res = NoRes) =>
           /\ AttemptsMade(calls[c]) = 3
           /\ calls[c].value.johoegyeolgwa = Failed
           /\ noteOk(calls[c].value.bigo, calls[c].lastErr)

ContainsText(note, e) == includes(note, e)
ContainsFirst160(note, e) ==
  /\ includes(note, SubSeq(e, 1, Min(Len(e), 160)))
  /\ Len(note) = Len(NoteFetchFailed) + Min(Len(e), 160)

\* C8, as stated: one resolution of part_000 makes at most 3 upstream
\* attempts; when the first 2 fail and the 3rd succeeds the outcome is the one
\* derived from the 3rd response; when all 3 fail the outcome is failed with a
\* note containing the last underlying error text.
C8_RetryPolicyWholeText == RetryPolicy(ContainsText)

\* C8, amended: as above, the note containing the first 160 characters of the
\* last underlying error text.
C8_RetryPolicyTruncatedText == RetryPolicy(ContainsFirst160)

\* All 3 attempts failed, the last with a message of more than 160
\* characters.
C8_Witness ==
  /\ impl = "part_000"
  /\ \E c \in Done :
       /\ Len(calls[c].slept) = 3
       /\ calls[c].res = NoRes
       /\ Len(calls[c].lastErr) > 160
       /\ calls[c].value.johoegyeolgwa = Failed

\* The invocations that returned a row built from a response whose HTTP
\* status is not a success.
DoneOnHttpError == {c \in Done : calls[c].res # NoRes /\ ~calls[c].res.ok}

\* The note of a response that is not ok: status code and truncated body.
HttpNoteOf(res) ==
  LET text == IF res.body.kind = "text" THEN res.body.text ELSE <<>>
  IN  NoteHttpError \o ToDecimal(res.status)
        \o (IF text = <<>> THEN <<>>
            ELSE A(" (") \o SubSeq(text, 1, Min(Len(text), 120)) \o A(")"))

\* The row is failed, its note has the status code and the truncated body,
\* and nothing is stored.
HttpErrorRow(c) ==
  /\ calls[c].value.johoegyeolgwa = Failed
  /\ calls[c].value.bigo = HttpNoteOf(calls[c].res)
  /\ ~calls[c].put
  /\ \A p \in puts : StoredStatus(p.body) # Failed
  /\ \A key \in DOMAIN cache : StoredStatus(cache[key].body) # Failed

\* C9, as stated: when the upstream answers with a non-success HTTP status,
\* the resolver of part_000 classifies the identifier as failed only after 3
\* attempts in total, with the status code and the truncated body in the
\* note, and does not persist the outcome.
C9_HttpErrorAfterThreeAttempts ==
  impl = "part_000" =>
    \A c \in DoneOnHttpError : AttemptsMade(calls[c]) = 3 /\ HttpErrorRow(c)

\* C9, amended: a response with a non-success HTTP status ends the
\* resolution at once: no further attempt follows it (only attempts that
\* raise are retried), the identifier is classified failed with the status
\* code and the body truncated to 120 characters in the note, and the
\* outcome is not persisted.
C9_HttpErrorEndsResolution ==
  \A c \in DOMAIN calls :
    /\ (calls[c].res # NoRes /\ ~calls[c].res.ok) =>
         /\ calls[c].pc \in {"text", "done"}
         /\ AttemptsMade(calls[c]) = Len(calls[c].slept) + 1
    /\ c \in DoneOnHttpError => HttpErrorRow(c)

\* The first attempt was answered with HTTP 500 and a long body; the row is
\* failed after that single attempt.
C9_Witness ==
  /\ impl = "part_000"
  /\ \E c \in DoneOnHttpError :
       /\ calls[c].res = RespHttp500
       /\ AttemptsMade(calls[c]) = 1
       /\ calls[c].value.johoegyeolgwa = Failed

\* The body of an ok response has the expected structure: JSON with a
\* document list.
ExpectedStructure(body) == body.kind = "json" /\ "docs" \in DOMAIN body.json

\* C10: a response body without the expected structure (not JSON, or JSON
\* without a document list) is classified failed and is not written to the
\* persistent cache; only a body with the expected structure yields not-found
\* or success.
C10_UnexpectedBodyIsFailed ==
  \A c \in Done :
    (calls[c].via = "network" /\ calls[c].res # NoRes /\ calls[c].res.ok) =>
      /\ ~ExpectedStructure(calls[c].res.body) =>
           calls[c].value.johoegyeolgwa = Failed /\ ~calls[c].put
      /\ calls[c].value.johoegyeolgwa \in {Success, NotFound} =>
           ExpectedStructure(calls[c].res.body)

\* The request was accepted: it passed the checks of the handler.
Accepted == phase # "idle" /\ response.kind # "error"

\* C11: no failure while resolving one row aborts the batch: whatever the
\* cache lookup and the upstream call do, fetchFromNldOrCache returns a row
\* instead of raising, and an accepted batch is answered with one row per
\* input position.
C11_NoFailureAbortsBatch ==
  /\ \A c \in DOMAIN calls : calls[c].pc # "raised"
  /\ (Accepted /\ phase = "responded") =>
       /\ response.kind = "ok"
       /\ DOMAIN results = 0..(Len(input) - 1)

\* The row tasks started and not finished: the workers inside an await.
TasksInFlight == {w \in DOMAIN workers : workers[w].pc = "await"}

\* The invocations of fetchFromNldOrCache that have not settled.
CallsInFlight == {c \in DOMAIN calls : calls[c].pc \notin {"done", "raised"}}

\* C12: bounded concurrency: for every concurrency hint the worker budget K
\* lies in the clamped range (1..10 in part_000, 1..15 in index.js), and in
\* every state the row tasks started and not finished, and the lookups in
\* flight, number at most min(K, N) for a batch of N rows.
C12_BoundedConcurrency ==
  Accepted =>
    /\ concurrency \in (IF impl = "part_000" THEN 1..10 ELSE 1..15)
    /\ Cardinality(DOMAIN workers) <= Min(concurrency, Len(input))
    /\ Cardinality(TasksInFlight) <= Min(concurrency, Len(input))
    /\ Cardinality(CallsInFlight) <= Min(concurrency, Len(input))

\* A budget of 2 for 3 rows: two lookups are in flight and the third row has
\* not been claimed.
C12_Witness ==
  /\ phase = "running"
  /\ concurrency = 2
  /\ Len(input) = 3
  /\ i = 2
  /\ Cardinality(CallsInFlight) = 2
  /\ \A c \in CallsInFlight : calls[c].pc = "fetch"

\* The workers that hold a claimed index whose slot is not written.
Holding == {w \in DOMAIN workers : workers[w].pc \in {"await", "threw"}}

\* Every index below the cursor has been claimed by exactly one worker: it is
\* either written or held by a single worker, never both.
ClaimedExactlyOnce ==
  Accepted =>
    /\ \A w1, w2 \in Holding : workers[w1].idx = workers[w2].idx => w1 = w2
    /\ \A w \in Holding : workers[w].idx \notin DOMAIN results
    /\ DOMAIN results \cup {workers[w].idx : w \in Holding}
         = 0..(Min(i, Len(input)) - 1)
    /\ Answered => DOMAIN results = 0..(Len(input) - 1)

\* A written slot is not written again.
WrittenOnce ==
  batchNo' = batchNo =>
    \A k \in DOMAIN results : k \in DOMAIN results' /\ results'[k] = results[k]

\* A lookup completed by rejecting its promise (a cache read error), which
\* makes runPool reject instead of returning.
LookupRejected == \E c \in DOMAIN calls : calls[c].pc = "raised"

\* C13: the scheduler is never starved or deadlocked: for every N and K
\* (K > N, N = 0 and duplicates waiting on a pending memoized lookup
\* included), if every lookup eventually completes then runPool eventually
\* returns, and then every index 0..N-1 has been claimed exactly once and its
\* slot written exactly once.
C13_PoolReturns ==
  /\ []ClaimedExactlyOnce
  /\ [][WrittenOnce]_vars
  /\ []<>(CallsInFlight = {}) =>
       ((phase = "running") ~> (Answered \/ LookupRejected))

\* runPool returned for a batch with more workers allowed than rows, in which
\* a duplicate row waited on the lookup its first occurrence started.
C13_Witness ==
  /\ Answered
  /\ concurrency > Len(input)
  /\ DuplicatePositions # {}
  /\ DOMAIN results = 0..(Len(input) - 1)
  /\ \A w \in DOMAIN workers : workers[w].pc = "exit"

\* The bibliographic fields and the status of a row.
OutcomeOf(row) ==
  <<row.doseomyeong, row.jeojamyeong, row.chulpansa, row.balhaengnyeondo,
    row.johoegyeolgwa>>

\* The written rows of one valid identifier carry one outcome.
RowsShareOutcome ==
  \A k1 \in DOMAIN results \cap ValidPositions :
    \A k2 \in DOMAIN results \cap ValidPositions :
      NormAt(k1) = NormAt(k2) => OutcomeOf(results[k1]) = OutcomeOf(results[k2])

\* A settled resolution keeps its value, and a written row keeps its outcome.
OutcomeKept ==
  batchNo' = batchNo =>
    /\ \A c \in DOMAIN calls :
         calls[c].pc = "done" =>
           /\ c \in DOMAIN calls'
           /\ calls'[c].pc = "done"
           /\ calls'[c].value = calls[c].value
    /\ \A k \in DOMAIN results :
         k \in DOMAIN results' /\ OutcomeOf(results'[k]) = OutcomeOf(results[k])

\* C14: all rows of one batch that normalize to the same valid identifier
\* have identical title, author, publisher, year and status, also when the
\* outcome is failed, and an outcome does not change once it is produced.
C14_DuplicatesShareOutcome ==
  /\ []RowsShareOutcome
  /\ [][OutcomeKept]_vars

\* An answered batch whose repeated identifier resolved as failed: the rows
\* differ in their note only.
C14_Witness ==
  /\ Answered
  /\ \E k \in DuplicatePositions :
       /\ results[k].johoegyeolgwa = Failed
       /\ results[FirstOf(k)].johoegyeolgwa = Failed
       /\ results[k].bigo # results[FirstOf(k)].bigo

\* The request being handled is one the handler rejects.
RejectedRequest == phase # "idle" /\ (~request.cred \/ request.kind # "ok")

\* C15: when the credential is absent, the body is not JSON, or isbns is not
\* a list, the handler returns an error envelope and processes no row: no
\* persistent-cache lookup, no upstream call and no cache write.
C15_RejectedRequestProcessesNoRow ==
  RejectedRequest =>
    /\ phase = "responded"
    /\ response.kind = "error"
    /\ response.status = (IF request.cred THEN 400 ELSE 500)
    /\ calls = <<>>
    /\ workers = <<>>
    /\ results = <<>>
    /\ puts = {}
    /\ cache \in {EmptyCache, WarmCache(impl)}

\* A request without the credential, carrying a valid identifier, answered
\* by a worker whose cache already holds that identifier.
C15_Witness ==
  /\ RejectedRequest
  /\ ~request.cred
  /\ request.kind = "ok"
  /\ response.status = 500
  /\ cache = WarmCache(impl)

\* The author short form makeRow puts between the parentheses.
ShortFormOf(author) ==
  IF impl = "part_000" THEN normalizeAuthors(author).authorShort
                       ELSE formatAuthorDisplay(author)

\* title(authorShort), title alone, or the empty string.
LabelOf(title, short) ==
  IF ~Truthy(title) THEN <<>>
  ELSE IF short # <<>> THEN title \o A("(") \o short \o A(")")
  ELSE title

\* C16: in both source files the composite label of makeRow is
\* title(authorShort) when the row has a title and a resolvable author short
\* form, the title alone when it has a title but no resolvable author, and
\* the empty string when it has no title.
C16_CompositeLabel ==
  returned.fn = "makeRow" =>
    returned.value.doseomyeong_jeojamyeong
      = LabelOf(args.title, ShortFormOf(args.author))

\* C17: normalizeAuthors on the role-tagged string with two names returns 2
\* names and the short form "first name + et-al marker"; on an input with no
\* extractable name it returns authorName "", authorShort "" and count 0.
C17_RoleTaggedTwoNames ==
  returned.fn = "normalizeAuthors" =>
    /\ args.author = RoleTaggedTwoNames =>
         /\ returned.value.count = 2
         /\ returned.value.authorShort = <<"GIM", "CHEOL", "SU">> \o EtAl
    /\ args.author \in {<<>>, <<" ">>, A("12345"), <<"JI", "EUM">>} =>
         returned.value = EmptyAuthors

\* The lookups started by the step, and the cursor the step started from.
NewCalls == IF batchNo' = batchNo THEN DOMAIN calls' \ DOMAIN calls ELSE DOMAIN calls'
CursorBefore == IF batchNo' = batchNo THEN i ELSE 0

\* A lookup starts in the step whose claims include the lowest position of
\* its identifier.
StartedAtFirstPosition ==
  \A c \in NewCalls :
    \E f \in CursorBefore..(i' - 1) :
      /\ f < Len(input')
      /\ normalizeIsbn(input'[f + 1]) = calls'[c].normIsbn
      /\ \A g \in 0..(f - 1) : normalizeIsbn(input'[g + 1]) # calls'[c].normIsbn

\* Every task at a valid position awaits the promise stored under its
\* digits-only form, which the first position of that form has passed.
AwaitsInstalled ==
  Accepted =>
    \A w \in DOMAIN workers :
      (workers[w].pc = "await" /\ workers[w].idx \in ValidPositions) =>
        LET norm == NormAt(workers[w].idx)
        IN  /\ norm \in DOMAIN inBatchCache
            /\ workers[w].promise = inBatchCache[norm]
            /\ calls[workers[w].promise].normIsbn = norm
            /\ FirstOf(workers[w].idx) < i
            /\ Cardinality(CallsFor(norm)) = 1

\* C18: for every valid normalized identifier of a batch, the pending
\* resolution is installed in inBatchCache by the task at the lowest input
\* position with that identifier, for every worker budget and interleaving:
\* no later duplicate position starts the lookup.
C18_FirstPositionInstalls ==
  /\ []AwaitsInstalled
  /\ [][StartedAtFirstPosition]_vars

\* Two workers, at the first and at a later position of one identifier,
\* await the same pending lookup.
C18_Witness ==
  /\ phase = "running"
  /\ \E w1 \in DOMAIN workers : \E w2 \in DOMAIN workers :
       /\ workers[w1].pc = "await" /\ workers[w2].pc = "await"
       /\ workers[w1].idx \in ValidPositions
       /\ workers[w2].idx \in DuplicatePositions
       /\ FirstOf(workers[w2].idx) = workers[w1].idx
       /\ workers[w1].promise = workers[w2].promise
       /\ calls[workers[w1].promise].pc = "fetch"

NormA == normalizeIsbn(rA)

\* The positions of the batch carrying the identifier norm.
PositionsOf(norm) == {k \in 0..(Len(input) - 1) : NormAt(k) = norm}

\* The lookup of norm has started and has not settled.
Pending(norm) ==
  phase = "running" /\ \E c \in CallsInFlight : calls[c].normIsbn = norm

\* The lookups of the other identifiers that have not settled.
OthersInFlight(norm) == {c \in CallsInFlight : calls[c].normIsbn # norm}

\* Every row with another identifier has been written to its slot.
OthersResolved(norm) ==
  /\ phase # "idle"
  /\ \A k \in 0..(Len(input) - 1) : NormAt(k) # norm => k \in DOMAIN results

\* No worker is left with a settled await: the event loop has run every
\* continuation that could run.
ContinuationsRun == \A w \in DOMAIN workers : ~ready(w)

\* C19: with K >= 2 workers, while the lookup of one identifier stays
\* pending, every row with a different identifier is still claimed by a
\* worker and resolved without waiting for the pending lookup to finish
\* (the lookups of the other identifiers being answered and the event loop
\* running the continuations).
C19_SlowLookupDelaysOnlyItsRows ==
  (/\ <>[](concurrency >= 2 /\ Pending(NormA))
   /\ []<>(OthersInFlight(NormA) = {})
   /\ []<>ContinuationsRun)
    => <>OthersResolved(NormA)

\* C19, amended: the same, when fewer than K positions of the batch carry
\* the slow identifier; each such position holds one worker until the
\* lookup settles.
C19_SlowLookupHoldsOnlyItsWorkers ==
  (/\ <>[](/\ concurrency >= 2
           /\ Cardinality(PositionsOf(NormA)) < concurrency
           /\ Pending(NormA))
   /\ []<>(OthersInFlight(NormA) = {})
   /\ []<>ContinuationsRun)
    => <>OthersResolved(NormA)

\* The first attempt of the slow lookup is still in flight while the row of
\* the other identifier, resolved by its own lookup, is in its slot.
C19_Witness ==
  /\ concurrency = 2
  /\ Cardinality(PositionsOf(NormA)) = 1
  /\ Pending(NormA)
  /\ \A c \in CallsFor(NormA) : calls[c].pc = "fetch" /\ calls[c].attempt = 0
  /\ OthersResolved(NormA)
  /\ \E k \in DOMAIN results :
       /\ results[k].isbn = normalizeIsbn(rB)
       /\ results[k].johoegyeolgwa = Success

\* The calls that are inside fetchWithRetry or reading the body of its
\* response: the cache has been consulted and the outcome is not there yet.
Resolving == {c \in DOMAIN calls : calls[c].pc \in {"fetch", "sleep", "text", "json"}}

\* C20: in part_000 every resolver attempt is bounded by its own timeout,
\* whatever the upstream does (no response, or response headers received and
\* the body never completing): a resolution makes at most 3 attempts and,
\* once it has turned to the upstream, it ends; it never waits forever.
C20_AttemptBoundedByTimeout ==
  /\ [](\A c \in DOMAIN calls : AttemptsMade(calls[c]) <= 3)
  /\ (impl = "part_000" /\ Resolving # {}) ~> (Resolving = {})

\* The sleeps a resolution that made n failed attempts has between them.
SleepsBetween(n) == [k \in 1..(n - 1) |-> backoffMs(k - 1)]

\* C21: in fetchWithRetry the backoff sleep occurs only between attempts: a
\* failed attempt is followed by a sleep (200 ms, then 400 ms) exactly when
\* another attempt follows, and after the last permitted attempt fails the
\* error is raised without a further sleep.
C21_SleepOnlyBetweenAttempts ==
  impl = "part_000" =>
    \A c \in DOMAIN calls :
      /\ calls[c].pc = "sleep" => calls[c].attempt < retryCount
      /\ Len(calls[c].slept) <= retryCount
      /\ \A k \in DOMAIN calls[c].slept : calls[c].slept[k] = backoffMs(k - 1)
      /\ (calls[c].pc = "done" /\ calls[c].attempt = retryCount + 1) =>
           calls[c].slept = SleepsBetween(retryCount + 1)

Statuses == {Success, NotFound, Failed, FormatError}

\* C22: for every answered batch, every returned row has a status among the
\* four, so summary.total equals the number of rows and equals success +
\* notFound + failed + invalid, whatever the cache and the upstream return.
C22_SummaryPartition ==
  Answered =>
    /\ \A k \in DOMAIN results : results[k].johoegyeolgwa \in Statuses
    /\ response.summary.total = Cardinality(DOMAIN results)
    /\ response.summary.total = Len(input)
    /\ response.summary.total
         = response.summary.success + response.summary.notFound
             + response.summary.failed + response.summary.invalid

\* Answered batches: one with an invalid row and two failed rows, and the
\* list of 501 cut to 500 rows.
C22_Witness ==
  /\ Answered
  /\ \/ /\ response.summary.total = 3
        /\ response.summary.invalid = 1
        /\ response.summary.failed = 2
     \/ /\ Len(isbns) = LongBatchLen
        /\ response.summary.total = MaxBatch

====
